---------------------------- MODULE Spec2Model ----------------------------
(***************************************************************************)
(* A model of src/game_Version3.js: the game state, the keyboard handlers, *)
(* reset, spawnAsteroid, shoot, step and the requestAnimationFrame driver  *)
(* loop.                                                                   *)
(*                                                                         *)
(* Numbers.  JavaScript numbers are doubles; here every real quantity is a *)
(* fixed-point integer with four decimals (one unit = 1/10000 of a pixel,  *)
(* of a pixel per millisecond, of a radian, of a millisecond of spawn      *)
(* interval), and a product of two such quantities is rounded down to that *)
(* resolution.  Wall-clock times, dt and a bullet's life are whole         *)
(* milliseconds.  Rendering (render, drawShip, drawAsteroid, the score and *)
(* debug labels, the DPR override) reads the state and is left out, as are *)
(* an asteroid's rot and rotSpeed, which only the renderer reads.          *)
(***************************************************************************)
EXTENDS Integers, Sequences, FiniteSets, TLC

FP == 100 * 100            \* fixed-point units per 1.0

Min(a, b) == IF a < b THEN a ELSE b
Max(a, b) == IF a > b THEN a ELSE b
Abs(a) == IF a < 0 THEN -a ELSE a

(***************************************************************************)
(* Math.PI, Math.cos, Math.sin in fixed point: the argument is reduced to  *)
(* [-pi/2, pi/2] and the sine series is summed in Horner form.             *)
(***************************************************************************)
PI == 31416
HALF_PI == PI \div 2
TWO_PI == 2 * PI

\* x * (1 - x^2/6 (1 - x^2/20 (1 - x^2/42 (1 - x^2/72)))) for 0 <= x <= pi/2
SinSeries(x) ==
    LET x2 == (x * x) \div FP
        t4 == FP - (x2 \div 72)
        t3 == FP - (((x2 * t4) \div FP) \div 42)
        t2 == FP - (((x2 * t3) \div FP) \div 20)
        t1 == FP - (((x2 * t2) \div FP) \div 6)
    IN  (x * t1) \div FP

Sin(a) ==
    LET n == ((a + PI) % TWO_PI) - PI          \* in [-pi, pi)
        r == IF n > HALF_PI THEN PI - n
             ELSE IF n < -HALF_PI THEN -PI - n
             ELSE n                             \* in [-pi/2, pi/2], same sine
    IN  IF r < 0 THEN -SinSeries(-r) ELSE SinSeries(r)

Cos(a) == Sin(a + HALF_PI)

(***************************************************************************)
(* rand(min, max) = Math.random() * (max - min) + min, with Math.random()  *)
(* given in hundredths: u in 0..99 stands for u/100.                       *)
(***************************************************************************)
rand(min, max, u) == min + (((max - min) * u) \div 100)

\* Math.floor of a fixed-point number, as a whole number
Floor(x) == x \div FP

(***************************************************************************)
(* Math.hypot(dx, dy) < r, decided exactly on the squares.  A square does  *)
(* not fit 32 bits, so it is kept as two limbs hi * FP + lo.  hypot is at  *)
(* least |dx| and |dy|, so the squares are only formed when both are       *)
(* below r.                                                                *)
(***************************************************************************)
Sq(d) ==
    LET h == d \div FP
        l == d % FP
        low == l * l
    IN  [hi |-> h * h * FP + 2 * h * l + (low \div FP), lo |-> low % FP]

HypotLess(dx, dy, r) ==
    /\ r > 0
    /\ Abs(dx) < r
    /\ Abs(dy) < r
    /\ LET a == Sq(Abs(dx))
           b == Sq(Abs(dy))
           c == Sq(r)
           slo == a.lo + b.lo
           shi == a.hi + b.hi + (slo \div FP)
       IN  \/ shi < c.hi
           \/ shi = c.hi /\ (slo % FP) < c.lo

Splice(s, i) == SubSeq(s, 1, i - 1) \o SubSeq(s, i + 1, Len(s))

\* F(e), with e evaluated once
With(e, F(_)) == CHOOSE r \in {F(v) : v \in {e}} : TRUE

(***************************************************************************)
(* The playfield: canvas.clientWidth and canvas.clientHeight, in pixels.   *)
(***************************************************************************)
ClientWidth == 100
ClientHeight == 80

SPAWN_INTERVAL_BASE == 1200
SPAWN_INTERVAL_FAST == 500
SPAWN_INTERVAL_FLOOR == 500
SHOT_COOLDOWN == 180
BULLET_LIFE == 120
MAX_DT == 40

(***************************************************************************)
(* Bounds of the model.                                                    *)
(***************************************************************************)
MaxFrames == 2             \* animation frames in one behaviour
MaxKeyEvents == 2          \* keydown and keyup events in one behaviour
StartClock == 100          \* performance.now() when the script runs
MaxPlayFrames == 1         \* animation frames that follow PlayScript
MaxExpireFrames == 26      \* animation frames in which bullets run out

VARIABLES
    keys,             \* the codes e with keys[e] true
    spawnFastToggle,
    shipSpeedMult,
    ship,             \* state.ship (NoShip: null)
    bullets,          \* state.bullets
    asteroids,        \* state.asteroids
    score,            \* state.score
    lastSpawn,        \* state.lastSpawn
    spawnInterval,    \* state.spawnInterval
    lastTime,         \* state.lastTime
    gameOver,         \* state.gameOver
    shotCooldown,     \* state._shotCooldown (0: not set yet)
    clock,            \* what performance.now() returns
    pc,               \* where the top-level script is: "reset", "spawn", "run"
    frame,            \* animation frames run so far
    nkeys,            \* key events handled so far
    op,               \* the operation that ran last
    ev                \* what the last frame did inside loop and step

vars == <<keys, spawnFastToggle, shipSpeedMult, ship, bullets, asteroids,
          score, lastSpawn, spawnInterval, lastTime, gameOver, shotCooldown,
          clock, pc, frame, nkeys, op, ev>>

NoShip == [null |-> TRUE]

\* ev when the last operation was not a frame
NoEv == [dt |-> 0, stepped |-> FALSE, reset |-> FALSE, fired |-> FALSE,
         ix |-> 0, iy |-> 0, spawned |-> FALSE, culled |-> 0, hits |-> <<>>,
         inBounds |-> TRUE]

(***************************************************************************)
(* const state = {...}: the state when the script has built it.            *)
(***************************************************************************)
Init ==
    /\ keys = {}
    /\ spawnFastToggle = FALSE
    /\ shipSpeedMult = 1
    /\ ship = NoShip
    /\ bullets = <<>>
    /\ asteroids = <<>>
    /\ score = 0
    /\ lastSpawn = 0
    /\ spawnInterval = SPAWN_INTERVAL_BASE * FP
    /\ lastTime = StartClock
    /\ gameOver = FALSE
    /\ shotCooldown = 0
    /\ clock = StartClock
    /\ pc = "reset"
    /\ frame = 0
    /\ nkeys = 0
    /\ op = "init"
    /\ ev = NoEv

(***************************************************************************)
(* reset(): the fields it assigns, as a record.                            *)
(***************************************************************************)
NewShip ==
    [x |-> (ClientWidth * FP) \div 2, y |-> (ClientHeight * FP) \div 2,
     vx |-> 0, vy |-> 0, angle |-> -HALF_PI, radius |-> 14 * FP, thrust |-> 0]

ResetInterval(fast) ==
    IF fast THEN SPAWN_INTERVAL_FAST * FP ELSE SPAWN_INTERVAL_BASE * FP

\* reset() that forgets the score
resetKeepsScore(now) ==
    [ship |-> NewShip, bullets |-> <<>>, asteroids |-> <<>>, score |-> score,
     lastSpawn |-> now, spawnInterval |-> ResetInterval(spawnFastToggle),
     gameOver |-> FALSE]

reset(now) ==
    [ship |-> NewShip, bullets |-> <<>>, asteroids |-> <<>>, score |-> 0,
     lastSpawn |-> now, spawnInterval |-> ResetInterval(spawnFastToggle),
     gameOver |-> FALSE]

(***************************************************************************)
(* spawnAsteroid(): the asteroid it pushes.  d holds Math.random()'s       *)
(* values in call order: edge, u2, u3, u4, r.                              *)
(***************************************************************************)
\* spawnAsteroid with the right edge's vx not negated
spawnAsteroidOutward(d) ==
    LET w == ClientWidth * FP
        h == ClientHeight * FP
        edge == Floor(rand(0, 4 * FP, d.edge))
        r == Floor(rand(18 * FP, 44 * FP, d.r))
        pos == IF edge = 0 THEN
                   [x |-> -40 * FP, y |-> rand(0, h, d.u2),
                    vx |-> rand(3000, 11000, d.u3), vy |-> rand(-6000, 6000, d.u4)]
               ELSE IF edge = 1 THEN
                   [x |-> w + 40 * FP, y |-> rand(0, h, d.u2),
                    vx |-> rand(3000, 11000, d.u3), vy |-> rand(-6000, 6000, d.u4)]
               ELSE IF edge = 2 THEN
                   [x |-> rand(0, w, d.u2), y |-> -40 * FP,
                    vx |-> rand(-6000, 6000, d.u3), vy |-> rand(3000, 11000, d.u4)]
               ELSE
                   [x |-> rand(0, w, d.u2), y |-> h + 40 * FP,
                    vx |-> rand(-6000, 6000, d.u3), vy |-> rand(-11000, -3000, d.u4)]
    IN  [x |-> pos.x, y |-> pos.y, vx |-> pos.vx, vy |-> pos.vy, radius |-> r * FP]

spawnAsteroid(d) ==
    LET w == ClientWidth * FP
        h == ClientHeight * FP
        edge == Floor(rand(0, 4 * FP, d.edge))
        r == Floor(rand(18 * FP, 44 * FP, d.r))
        pos == IF edge = 0 THEN
                   [x |-> -40 * FP, y |-> rand(0, h, d.u2),
                    vx |-> rand(3000, 11000, d.u3), vy |-> rand(-6000, 6000, d.u4)]
               ELSE IF edge = 1 THEN
                   [x |-> w + 40 * FP, y |-> rand(0, h, d.u2),
                    vx |-> rand(-11000, -3000, d.u3), vy |-> rand(-6000, 6000, d.u4)]
               ELSE IF edge = 2 THEN
                   [x |-> rand(0, w, d.u2), y |-> -40 * FP,
                    vx |-> rand(-6000, 6000, d.u3), vy |-> rand(3000, 11000, d.u4)]
               ELSE
                   [x |-> rand(0, w, d.u2), y |-> h + 40 * FP,
                    vx |-> rand(-6000, 6000, d.u3), vy |-> rand(-11000, -3000, d.u4)]
    IN  [x |-> pos.x, y |-> pos.y, vx |-> pos.vx, vy |-> pos.vy, radius |-> r * FP]

(***************************************************************************)
(* shoot(): the bullet it pushes.                                          *)
(***************************************************************************)
shoot(s) ==
    LET speed == 6
        c == Cos(s.angle)
        sn == Sin(s.angle)
    IN  [x |-> s.x + (c * (s.radius + 6 * FP)) \div FP,
         y |-> s.y + (sn * (s.radius + 6 * FP)) \div FP,
         vx |-> s.vx + c * speed,
         vy |-> s.vy + sn * speed,
         life |-> BULLET_LIFE]

(***************************************************************************)
(* step(dt), lines 146-173: controls, fire, restart, friction,             *)
(* integration and wrap, on the local s.                                   *)
(***************************************************************************)
Held(c) == c \in keys

Controls(s, dt) ==
    LET s1 == IF Held("ArrowLeft") \/ Held("KeyA")
              THEN [s EXCEPT !.angle = @ - 35 * dt] ELSE s
        s2 == IF Held("ArrowRight") \/ Held("KeyD")
              THEN [s1 EXCEPT !.angle = @ + 35 * dt] ELSE s1
        force == 26 * dt * shipSpeedMult
    IN  IF Held("ArrowUp") \/ Held("KeyW")
        THEN [s2 EXCEPT !.vx = @ + (Cos(s2.angle) * force) \div FP,
                        !.vy = @ + (Sin(s2.angle) * force) \div FP,
                        !.thrust = 1]
        ELSE [s2 EXCEPT !.thrust = 0]

\* the fire test without the cooldown
CanFireNoCooldown(now) == Held("Space")

CanFire(now) ==
    Held("Space") /\ (shotCooldown = 0 \/ now - shotCooldown > SHOT_COOLDOWN)

Integrate(s, dt) ==
    LET vx == (s.vx * 999) \div 1000
        vy == (s.vy * 999) \div 1000
    IN  [s EXCEPT !.vx = vx, !.vy = vy, !.x = @ + vx * dt, !.y = @ + vy * dt]

\* the wrap without its two lines for y
WrapXOnly(s) ==
    LET w == ClientWidth * FP
        x1 == IF s.x < -50 * FP THEN w + 50 * FP ELSE s.x
        x2 == IF x1 > w + 50 * FP THEN -50 * FP ELSE x1
    IN  [s EXCEPT !.x = x2]

Wrap(s) ==
    LET w == ClientWidth * FP
        h == ClientHeight * FP
        x1 == IF s.x < -50 * FP THEN w + 50 * FP ELSE s.x
        x2 == IF x1 > w + 50 * FP THEN -50 * FP ELSE x1
        y1 == IF s.y < -50 * FP THEN h + 50 * FP ELSE s.y
        y2 == IF y1 > h + 50 * FP THEN -50 * FP ELSE y1
    IN  [s EXCEPT !.x = x2, !.y = y2]

(***************************************************************************)
(* lines 175-182: the bullets, from the last to the first.                 *)
(***************************************************************************)
\* the loop over the bullets without its splice
RECURSIVE UpdateBulletsKeep(_, _, _)
UpdateBulletsKeep(bs, i, dt) ==
    IF i < 1 THEN bs
    ELSE LET b == [bs[i] EXCEPT !.x = @ + bs[i].vx * dt,
                                !.y = @ + bs[i].vy * dt,
                                !.life = @ - dt]
         IN  With([bs EXCEPT ![i] = b],
                  LAMBDA next : UpdateBulletsKeep(next, i - 1, dt))

RECURSIVE UpdateBullets(_, _, _)
UpdateBullets(bs, i, dt) ==
    IF i < 1 THEN bs
    ELSE LET b == [bs[i] EXCEPT !.x = @ + bs[i].vx * dt,
                                !.y = @ + bs[i].vy * dt,
                                !.life = @ - dt]
         IN  With(IF b.life <= 0 THEN Splice(bs, i) ELSE [bs EXCEPT ![i] = b],
                  LAMBDA next : UpdateBullets(next, i - 1, dt))

(***************************************************************************)
(* lines 184-192: the spawn timer.                                         *)
(***************************************************************************)
\* the spawn test always true
SpawnDueAlways(now, last, interval) == TRUE

SpawnDue(now, last, interval) == (now - last) * FP > interval

\* the decay with a factor above 1
DecayGrows(interval) == Max(SPAWN_INTERVAL_FLOOR * FP, (interval * 102) \div 100)

\* the decay without Math.max(500, ...)
DecayNoFloor(interval) == (interval * 98) \div 100

Decay(interval) == Max(SPAWN_INTERVAL_FLOOR * FP, (interval * 98) \div 100)

(***************************************************************************)
(* lines 194-204: the asteroids, from the last to the first; acc.culled    *)
(* counts the removals.                                                    *)
(***************************************************************************)
\* the test for far outside never true
FarOutsideNever(a) == FALSE

FarOutside(a) ==
    LET w == ClientWidth * FP
        h == ClientHeight * FP
    IN  \/ a.x < -200 * FP
        \/ a.x > w + 200 * FP
        \/ a.y < -200 * FP
        \/ a.y > h + 200 * FP

RECURSIVE UpdateAsteroids(_, _, _)
UpdateAsteroids(acc, i, dt) ==
    IF i < 1 THEN acc
    ELSE LET a0 == acc.list[i]
             a == [a0 EXCEPT !.x = @ + (a0.vx * dt * 9) \div 10,
                             !.y = @ + (a0.vy * dt * 9) \div 10]
         IN  With(IF FarOutside(a)
                  THEN [list |-> Splice(acc.list, i), culled |-> acc.culled + 1]
                  ELSE [acc EXCEPT !.list[i] = a],
                  LAMBDA next : UpdateAsteroids(next, i - 1, dt))

(***************************************************************************)
(* lines 206-236: bullets against asteroids.  BulletHit is the inner loop: *)
(* the index of the first bullet, from the last, that hits a (0: none).    *)
(* Collide is the outer loop; c.hits lists the asteroids hit, and fd holds *)
(* Math.random()'s values for the fragments, two records for each hit.     *)
(* An index i past the end of the asteroids reads undefined at line 208,   *)
(* and line 211 then throws: c.inBounds records that this did not happen.  *)
(***************************************************************************)
RECURSIVE BulletHit(_, _, _)
BulletHit(a, bs, j) ==
    IF j < 1 THEN 0
    ELSE IF HypotLess(a.x - bs[j].x, a.y - bs[j].y, a.radius + 2 * FP) THEN j
    ELSE BulletHit(a, bs, j - 1)

\* a fragment of 0.75 times the radius
FragmentLarge(a, d) ==
    [x |-> a.x + rand(-10 * FP, 10 * FP, d.x),
     y |-> a.y + rand(-10 * FP, 10 * FP, d.y),
     vx |-> a.vx + rand(-FP, FP, d.vx),
     vy |-> a.vy + rand(-FP, FP, d.vy),
     radius |-> (a.radius * 75) \div 100]

Fragment(a, d) ==
    [x |-> a.x + rand(-10 * FP, 10 * FP, d.x),
     y |-> a.y + rand(-10 * FP, 10 * FP, d.y),
     vx |-> a.vx + rand(-FP, FP, d.vx),
     vy |-> a.vy + rand(-FP, FP, d.vy),
     radius |-> (a.radius * 55) \div 100]

\* the fragments without the test of the radius
FragmentsAlways(a, d1, d2) == <<Fragment(a, d1), Fragment(a, d2)>>

Fragments(a, d1, d2) ==
    IF a.radius > 26 * FP THEN <<Fragment(a, d1), Fragment(a, d2)>> ELSE <<>>

\* the points with the subtraction turned round
HitScoreNegated(a) == Floor(a.radius - 100 * FP)

\* the points as the radius itself
HitScoreRadius(a) == Floor(a.radius)

HitScore(a) == Floor(100 * FP - a.radius)

\* the collisions without the splice of the bullet
RECURSIVE CollideKeepsBullet(_, _, _)
CollideKeepsBullet(c, i, fd) ==
    IF i < 1 THEN c
    ELSE IF i > Len(c.asteroids) THEN [c EXCEPT !.inBounds = FALSE]
    ELSE LET a == c.asteroids[i]
             j == BulletHit(a, c.bullets, Len(c.bullets))
             n == Len(c.hits)
         IN  IF j = 0 THEN CollideKeepsBullet(c, i - 1, fd)
             ELSE With([bullets |-> c.bullets,
                        asteroids |-> Splice(c.asteroids, i)
                                      \o Fragments(a, fd[2 * n + 1], fd[2 * n + 2]),
                        score |-> c.score + HitScore(a),
                        hits |-> Append(c.hits, a),
                        inBounds |-> c.inBounds],
                       LAMBDA next : CollideKeepsBullet(next, i - 1, fd))

RECURSIVE Collide(_, _, _)
Collide(c, i, fd) ==
    IF i < 1 THEN c
    ELSE IF i > Len(c.asteroids) THEN [c EXCEPT !.inBounds = FALSE]
    ELSE LET a == c.asteroids[i]
             j == BulletHit(a, c.bullets, Len(c.bullets))
             n == Len(c.hits)
         IN  IF j = 0 THEN Collide(c, i - 1, fd)
             ELSE With([bullets |-> Splice(c.bullets, j),
                        asteroids |-> Splice(c.asteroids, i)
                                      \o Fragments(a, fd[2 * n + 1], fd[2 * n + 2]),
                        score |-> c.score + HitScore(a),
                        hits |-> Append(c.hits, a),
                        inBounds |-> c.inBounds],
                       LAMBDA next : Collide(next, i - 1, fd))

(***************************************************************************)
(* lines 238-244: the ship against the asteroids.                          *)
(***************************************************************************)
\* the loop over the asteroids stopping before index 0
ShipHitSkipsFirst(s, as) ==
    \E i \in 2..Len(as) :
        HypotLess(as[i].x - s.x, as[i].y - s.y, as[i].radius + s.radius - 4 * FP)

ShipHit(s, as) ==
    \E i \in 1..Len(as) :
        HypotLess(as[i].x - s.x, as[i].y - s.y, as[i].radius + s.radius - 4 * FP)

(***************************************************************************)
(* step(dt) as a whole: the state it leaves, and in ev what it did.  now   *)
(* is what performance.now() returns during the call, sd the random values *)
(* of the timed spawn and fd those of the fragments.                       *)
(***************************************************************************)
StepHead(dt, now) ==
    With(Controls(ship, dt), LAMBDA s1 :
    With(Integrate(s1, dt), LAMBDA si :
    With(Wrap(si), LAMBDA s2 :
        LET fired == CanFire(now)
            b1 == IF fired THEN Append(bullets, shoot(s1)) ELSE bullets
            restart == Held("KeyR") /\ gameOver
            r == reset(now)
            b2 == IF restart THEN r.bullets ELSE b1
        IN  [s |-> s2, ix |-> si.x, iy |-> si.y, fired |-> fired, reset |-> restart,
             shotCooldown |-> IF fired THEN now ELSE shotCooldown,
             ship |-> IF restart THEN r.ship ELSE s2,
             bullets |-> With(b2, LAMBDA b : UpdateBullets(b, Len(b), dt)),
             asteroids |-> IF restart THEN r.asteroids ELSE asteroids,
             score |-> IF restart THEN r.score ELSE score,
             lastSpawn |-> IF restart THEN r.lastSpawn ELSE lastSpawn,
             spawnInterval |-> IF restart THEN r.spawnInterval ELSE spawnInterval,
             gameOver |-> IF restart THEN r.gameOver ELSE gameOver])))

StepTail(h, dt, now, sd, fd) ==
    LET due == SpawnDue(now, h.lastSpawn, h.spawnInterval)
    IN  With(IF due THEN Append(h.asteroids, spawnAsteroid(sd)) ELSE h.asteroids,
             LAMBDA as1 :
        With(UpdateAsteroids([list |-> as1, culled |-> 0], Len(as1), dt),
             LAMBDA upd :
        With(Collide([bullets |-> h.bullets, asteroids |-> upd.list,
                      score |-> h.score, hits |-> <<>>, inBounds |-> TRUE],
                     Len(upd.list), fd),
             LAMBDA c :
            [ship |-> h.ship, bullets |-> c.bullets, asteroids |-> c.asteroids,
             score |-> c.score,
             lastSpawn |-> IF due THEN now ELSE h.lastSpawn,
             spawnInterval |-> IF due THEN Decay(h.spawnInterval)
                               ELSE h.spawnInterval,
             gameOver |-> h.gameOver \/ ShipHit(h.s, c.asteroids),
             shotCooldown |-> h.shotCooldown,
             ev |-> [dt |-> dt, stepped |-> TRUE, reset |-> h.reset,
                     fired |-> h.fired, ix |-> h.ix, iy |-> h.iy, spawned |-> due,
                     culled |-> upd.culled, hits |-> c.hits,
                     inBounds |-> c.inBounds]])))

step(dt, now, sd, fd) ==
    With(StepHead(dt, now), LAMBDA h : StepTail(h, dt, now, sd, fd))

(***************************************************************************)
(* loop(now), lines 342-348.  t is the frame's timestamp, now what         *)
(* performance.now() returns while the callback runs.                      *)
(***************************************************************************)
FrameDt(t) == Min(MAX_DT, t - lastTime)

\* loop without its test of gameOver
CallsStepAlways == TRUE

CallsStep == ~gameOver

NoSpawnDraw == [edge |-> 0, u2 |-> 0, u3 |-> 0, u4 |-> 0, r |-> 0]
NoFragDraw == [x |-> 0, y |-> 0, vx |-> 0, vy |-> 0]

loop(t, now, SD, FD) ==
    LET dt == FrameDt(t)
    IN  /\ lastTime' = t
        /\ clock' = now
        /\ op' = "loop"
        /\ IF CallsStep /\ ship # NoShip
           THEN \E h \in {StepHead(dt, now)} :
                  LET due == SpawnDue(now, h.lastSpawn, h.spawnInterval)
                      most == 2 * (Len(asteroids) + 1)
                  IN  \E sd \in (IF due THEN SD ELSE {NoSpawnDraw}) :
                        \E n \in {Len(StepTail(h, dt, now, sd,
                                      [k \in 1..most |-> NoFragDraw]).ev.hits)} :
                          \E fd \in [1..(2 * n) -> FD] :
                            \E r \in {StepTail(h, dt, now, sd, fd)} :
                                /\ ship' = r.ship
                                /\ bullets' = r.bullets
                                /\ asteroids' = r.asteroids
                                /\ score' = r.score
                                /\ lastSpawn' = r.lastSpawn
                                /\ spawnInterval' = r.spawnInterval
                                /\ gameOver' = r.gameOver
                                /\ shotCooldown' = r.shotCooldown
                                /\ ev' = r.ev
           ELSE /\ UNCHANGED <<ship, bullets, asteroids, score, lastSpawn,
                               spawnInterval, gameOver, shotCooldown>>
                /\ ev' = [NoEv EXCEPT !.dt = dt]

(***************************************************************************)
(* The keydown and keyup handlers, lines 46-76.                            *)
(***************************************************************************)
keydown(code) ==
    /\ keys' = keys \cup {code}
    /\ spawnFastToggle' = IF code = "KeyF" THEN ~spawnFastToggle ELSE spawnFastToggle
    /\ spawnInterval' = IF code = "KeyF" THEN ResetInterval(~spawnFastToggle)
                        ELSE spawnInterval
    /\ shipSpeedMult' = IF code = "KeyS" THEN (IF shipSpeedMult = 1 THEN 2 ELSE 1)
                        ELSE shipSpeedMult
    /\ op' = "keydown"

keyup(code) ==
    /\ keys' = keys \ {code}
    /\ op' = "keyup"

(***************************************************************************)
(* The actions.  The script runs reset() (line 113), asks for the first    *)
(* frame (line 349) and spawns four asteroids (line 352); from then on the *)
(* browser delivers frames and key events.                                 *)
(***************************************************************************)
StartReset ==
    /\ pc = "reset"
    /\ LET r == reset(clock)
       IN  /\ ship' = r.ship
           /\ bullets' = r.bullets
           /\ asteroids' = r.asteroids
           /\ score' = r.score
           /\ lastSpawn' = r.lastSpawn
           /\ spawnInterval' = r.spawnInterval
           /\ gameOver' = r.gameOver
    /\ pc' = "spawn"
    /\ op' = "reset"
    /\ UNCHANGED <<keys, spawnFastToggle, shipSpeedMult, lastTime, shotCooldown,
                   clock, frame, nkeys, ev>>

StartSpawn(SD) ==
    /\ pc = "spawn"
    /\ \E sd \in SD : asteroids' = Append(asteroids, spawnAsteroid(sd))
    /\ pc' = IF Len(asteroids) + 1 = 4 THEN "run" ELSE "spawn"
    /\ op' = "spawn"
    /\ UNCHANGED <<keys, spawnFastToggle, shipSpeedMult, ship, bullets, score,
                   lastSpawn, spawnInterval, lastTime, gameOver, shotCooldown,
                   clock, frame, nkeys, ev>>

\* A frame, gap ms after the last operation; the first frame's timestamp
\* may lag performance.now() by lag ms.
Frame(gap, lag, SD, FD) ==
    /\ pc = "run"
    /\ frame < MaxFrames
    /\ frame > 0 => lag = 0
    /\ loop(clock + gap - lag, clock + gap, SD, FD)
    /\ frame' = frame + 1
    /\ UNCHANGED <<keys, spawnFastToggle, shipSpeedMult, pc, nkeys>>

KeyDown(code) ==
    /\ pc = "run"
    /\ nkeys < MaxKeyEvents
    /\ keydown(code)
    /\ nkeys' = nkeys + 1
    /\ ev' = NoEv
    /\ UNCHANGED <<ship, bullets, asteroids, score, lastSpawn, lastTime, gameOver,
                   shotCooldown, clock, pc, frame>>

KeyUp(code) ==
    /\ pc = "run"
    /\ nkeys < MaxKeyEvents
    /\ code \in keys
    /\ keyup(code)
    /\ nkeys' = nkeys + 1
    /\ ev' = NoEv
    /\ UNCHANGED <<spawnFastToggle, shipSpeedMult, ship, bullets, asteroids, score,
                   lastSpawn, spawnInterval, lastTime, gameOver, shotCooldown,
                   clock, pc, frame>>

(***************************************************************************)
(* Spec: the game from the script's start.  Frames come 10, 40 or 700 ms   *)
(* apart; asteroids enter from the top edge above the ship, at full speed, *)
(* with radius 18 or 43.                                                   *)
(***************************************************************************)
FrameGaps == {10, 40, 700}
FirstFrameLags == {0, 12}
PlayCodes == {"ArrowUp", "Space", "KeyR", "KeyF"}
SpawnDraws ==
    {[edge |-> 50, u2 |-> 50, u3 |-> 50, u4 |-> 99, r |-> 0],
     [edge |-> 50, u2 |-> 50, u3 |-> 50, u4 |-> 99, r |-> 99]}
FragDraws ==
    {[x |-> 0, y |-> 0, vx |-> 50, vy |-> 50],
     [x |-> 99, y |-> 99, vx |-> 50, vy |-> 50]}

Next ==
    \/ StartReset
    \/ StartSpawn(SpawnDraws)
    \/ \E gap \in FrameGaps, lag \in FirstFrameLags :
           Frame(gap, lag, SpawnDraws, FragDraws)
    \/ \E code \in PlayCodes : KeyDown(code)
    \/ \E code \in PlayCodes : KeyUp(code)

Spec == Init /\ [][Next]_vars

(***************************************************************************)
(* SpecPlay: one game, played from the script's start.  PlayScript lists   *)
(* what the browser delivers, in order: keydown and keyup events and       *)
(* frames with the given gaps; MaxPlayFrames frames 10, 40 or 700 ms apart *)
(* follow it.  The player waits 30 ms and shoots straight up, shoots again *)
(* 210 ms later, waits 240 ms and shoots a third time in a frame of 40 ms, *)
(* turns left for 240 ms, thrusts for 320 ms, which carries the ship past  *)
(* the left and the top margin, and presses F.  Each of the four start-up  *)
(* calls of spawnAsteroid has its own draws, in PlayStartDraws.            *)
(***************************************************************************)
KD(code) == [do |-> "keydown", code |-> code, gap |-> 0]
KU(code) == [do |-> "keyup", code |-> code, gap |-> 0]
FR(gap) == [do |-> "frame", code |-> "", gap |-> gap]

RECURSIVE Times(_, _)
Times(n, s) == IF n = 0 THEN <<>> ELSE s \o Times(n - 1, s)

PlayScript ==
    Times(3, <<FR(10)>>)
    \o <<KD("Space"), FR(10), KU("Space"), FR(200), KD("Space"), FR(10), KU("Space")>>
    \o Times(6, <<FR(40)>>)
    \o <<KD("Space"), FR(40), KU("Space"), KD("ArrowLeft")>>
    \o Times(6, <<FR(40)>>)
    \o <<KU("ArrowLeft"), KD("ArrowUp")>>
    \o Times(8, <<FR(40)>>)
    \o <<KD("KeyF")>>

\* an asteroid that crosses the upper left of the playfield, far from the ship
DH == [edge |-> 0, u2 |-> 0, u3 |-> 0, u4 |-> 0, r |-> 50]
\* from the top edge, left of the ship, towards it at full speed
DK == [edge |-> 50, u2 |-> 13, u3 |-> 99, u4 |-> 99, r |-> 99]
\* from the top edge above the ship, slowly, large and small
DL == [edge |-> 50, u2 |-> 50, u3 |-> 50, u4 |-> 0, r |-> 99]
DS == [edge |-> 50, u2 |-> 50, u3 |-> 50, u4 |-> 0, r |-> 0]

PlayStartDraws == <<{DK, DH}, {DL, DS, DH}, {DH}, {DH}>>

\* one draw for each edge
PlaySpawnDraws ==
    {[edge |-> 0, u2 |-> 50, u3 |-> 99, u4 |-> 50, r |-> 50],
     [edge |-> 25, u2 |-> 50, u3 |-> 0, u4 |-> 50, r |-> 50],
     [edge |-> 50, u2 |-> 50, u3 |-> 50, u4 |-> 99, r |-> 50],
     [edge |-> 75, u2 |-> 50, u3 |-> 50, u4 |-> 0, r |-> 50]}

PlaySpawn ==
    /\ pc = "spawn"
    /\ StartSpawn(PlayStartDraws[Len(asteroids) + 1])

\* the next entry of PlayScript
PlayStep ==
    /\ pc = "run"
    /\ frame + nkeys < Len(PlayScript)
    /\ LET a == PlayScript[frame + nkeys + 1]
       IN  IF a.do = "frame"
           THEN /\ loop(clock + a.gap, clock + a.gap, PlaySpawnDraws, FragDraws)
                /\ frame' = frame + 1
                /\ UNCHANGED <<keys, spawnFastToggle, shipSpeedMult, pc, nkeys>>
           ELSE /\ IF a.do = "keydown" THEN keydown(a.code)
                   ELSE /\ keyup(a.code)
                        /\ UNCHANGED <<spawnFastToggle, shipSpeedMult, spawnInterval>>
                /\ nkeys' = nkeys + 1
                /\ ev' = NoEv
                /\ UNCHANGED <<ship, bullets, asteroids, score, lastSpawn, lastTime,
                               gameOver, shotCooldown, clock, pc, frame>>

\* a frame after the end of PlayScript
PlayOn ==
    /\ pc = "run"
    /\ frame + nkeys >= Len(PlayScript)
    /\ frame + nkeys < Len(PlayScript) + MaxPlayFrames
    /\ \E gap \in FrameGaps :
          loop(clock + gap, clock + gap, PlaySpawnDraws, FragDraws)
    /\ frame' = frame + 1
    /\ UNCHANGED <<keys, spawnFastToggle, shipSpeedMult, pc, nkeys>>

NextPlay ==
    \/ StartReset
    \/ PlaySpawn
    \/ PlayStep
    \/ PlayOn

SpecPlay == Init /\ [][NextPlay]_vars

\* reset(), called on a game in progress
Restart ==
    /\ pc = "run"
    /\ LET r == reset(clock)
       IN  /\ ship' = r.ship
           /\ bullets' = r.bullets
           /\ asteroids' = r.asteroids
           /\ score' = r.score
           /\ lastSpawn' = r.lastSpawn
           /\ spawnInterval' = r.spawnInterval
           /\ gameOver' = r.gameOver
    /\ op' = "reset"
    /\ ev' = NoEv
    /\ UNCHANGED <<keys, spawnFastToggle, shipSpeedMult, lastTime, shotCooldown,
                   clock, pc, frame, nkeys>>

\* the game of SpecPlay, until reset() is called on it
NextReset ==
    \/ ~(pc = "run" /\ op = "reset") /\ NextPlay
    \/ Restart

SpecReset == Init /\ [][NextReset]_vars

(***************************************************************************)
(* SpecSpawn: the last of the four calls of spawnAsteroid() at line 352,   *)
(* with Math.random() at the ends and in the middle of its range and on    *)
(* both sides of each boundary between two edges.                          *)
(***************************************************************************)
EdgeDraws ==
    [edge : {0, 24, 25, 49, 50, 74, 75, 99}, u2 : {0, 50, 99}, u3 : {0, 50, 99},
     u4 : {0, 50, 99}, r : {0, 50, 99}]

InitSpawn ==
    /\ keys = {}
    /\ spawnFastToggle = FALSE
    /\ shipSpeedMult = 1
    /\ ship = NewShip
    /\ bullets = <<>>
    /\ asteroids \in {<<spawnAsteroid(d), spawnAsteroid(d), spawnAsteroid(d)>> :
                          d \in PlaySpawnDraws}
    /\ score = 0
    /\ lastSpawn = StartClock
    /\ spawnInterval = SPAWN_INTERVAL_BASE * FP
    /\ lastTime = StartClock
    /\ gameOver = FALSE
    /\ shotCooldown = 0
    /\ clock = StartClock
    /\ pc = "spawn"
    /\ frame = 0
    /\ nkeys = 0
    /\ op = "spawn"
    /\ ev = NoEv

NextSpawn == StartSpawn(EdgeDraws)

SpecSpawn == InitSpawn /\ [][NextSpawn]_vars

(***************************************************************************)
(* SpecExpire: the game from the script's start, with frames that keep     *)
(* coming, 10 or 40 ms apart, so that dt is the time that passed; Space is *)
(* pressed at some moment, or never, and stays held.  loop asks for the    *)
(* next frame at line 347 and the browser delivers it: frames are weakly   *)
(* fair.  With Space held the next bullet comes more than 180 ms after the *)
(* last, which has run out by then.                                        *)
(***************************************************************************)
ExpireGaps == {10, 40}
ExpiryFrames == 2 * (BULLET_LIFE \div 10)

\* the first start-up asteroid comes down on the ship or passes it
ExpireSpawn ==
    /\ pc = "spawn"
    /\ StartSpawn(IF asteroids = <<>> THEN {DK, DH} ELSE {DH})

ExpireFrame ==
    /\ pc = "run"
    /\ frame < MaxExpireFrames
    /\ \E gap \in ExpireGaps :
          loop(clock + gap, clock + gap, PlaySpawnDraws, FragDraws)
    /\ frame' = frame + 1
    /\ UNCHANGED <<keys, spawnFastToggle, shipSpeedMult, pc, nkeys>>

ExpireKey ==
    /\ keys = {}
    /\ KeyDown("Space")

NextExpire ==
    \/ StartReset
    \/ ExpireSpawn
    \/ ExpireKey
    \/ ExpireFrame

SpecExpire == Init /\ [][NextExpire]_vars /\ WF_vars(NextExpire)

(***************************************************************************)
(* SpecBoot: the top-level statements of the script from line 20 to the    *)
(* construction of state at line 83, in order.  A const or let binding is  *)
(* initialised when its declaration has run; a read of one that is not     *)
(* throws a ReferenceError, which ends the script.  canvas and ctx (lines  *)
(* 5-6) are initialised before line 20, and function declarations are     *)
(* hoisted.  Before its declaration runs a binding holds Uninitialized.    *)
(* When the last statement has run the state is that of Init.              *)
(***************************************************************************)
Uninitialized == [tdz |-> TRUE]

\* the statements: resize() (line 20), const scoreEl (22), the DPR values
\* (25-27), the spawn and speed toggles (29-31), debugEl (34-39),
\* updateDebug() (43), keys and the handlers (45-76), state (83-92)
Script ==
    <<"resize", "scoreEl", "dpr", "toggles", "debugEl", "updateDebug", "keys",
      "state">>

Declares(stmt) ==
    CASE stmt = "scoreEl" -> {"scoreEl"}
      [] stmt = "dpr" -> {"DPR_VALUES", "dprIndex"}
      [] stmt = "toggles" -> {"SPAWN_INTERVAL_BASE", "spawnFastToggle", "shipSpeedMult"}
      [] stmt = "debugEl" -> {"debugEl"}
      [] stmt = "keys" -> {"keys"}
      [] stmt = "state" -> {"state"}
      [] OTHER -> {}

\* the bindings updateDebug() reads at line 41
ReadsUpdateDebug == {"debugEl", "canvas", "state", "shipSpeedMult"}

\* the bindings a statement reads, the functions it calls included
Reads(stmt) ==
    CASE stmt = "resize" -> {"canvas", "ctx"} \cup ReadsUpdateDebug
      [] stmt = "dpr" -> {"DPR_VALUES", "dprIndex", "canvas"}
      [] stmt = "debugEl" -> {"debugEl"}
      [] stmt = "updateDebug" -> ReadsUpdateDebug
      [] stmt = "state" -> {"SPAWN_INTERVAL_BASE"}
      [] OTHER -> {}

\* the bindings initialised when statement k is about to run
Initialised(k) ==
    {"canvas", "ctx"} \cup UNION {Declares(Script[j]) : j \in 1..(k - 1)}

InitBoot ==
    /\ keys = Uninitialized
    /\ spawnFastToggle = Uninitialized
    /\ shipSpeedMult = Uninitialized
    /\ ship = Uninitialized
    /\ bullets = Uninitialized
    /\ asteroids = Uninitialized
    /\ score = Uninitialized
    /\ lastSpawn = Uninitialized
    /\ spawnInterval = Uninitialized
    /\ lastTime = Uninitialized
    /\ gameOver = Uninitialized
    /\ shotCooldown = Uninitialized
    /\ clock \in 1..StartClock
    /\ pc = Script[1]
    /\ frame = 0
    /\ nkeys = 0
    /\ op = "load"
    /\ ev = NoEv

TopLevel ==
    /\ \E k \in 1..Len(Script) :
          /\ pc = Script[k]
          /\ IF Reads(pc) \subseteq (Initialised(k) \cup Declares(pc))
             THEN /\ pc' = IF k < Len(Script) THEN Script[k + 1] ELSE "reset"
                  /\ op' = IF k < Len(Script) THEN "script" ELSE "init"
                  /\ spawnFastToggle' = IF pc = "toggles" THEN FALSE
                                        ELSE spawnFastToggle
                  /\ shipSpeedMult' = IF pc = "toggles" THEN 1 ELSE shipSpeedMult
                  /\ keys' = IF pc = "keys" THEN {} ELSE keys
                  /\ ship' = IF pc = "state" THEN NoShip ELSE ship
                  /\ bullets' = IF pc = "state" THEN <<>> ELSE bullets
                  /\ asteroids' = IF pc = "state" THEN <<>> ELSE asteroids
                  /\ score' = IF pc = "state" THEN 0 ELSE score
                  /\ lastSpawn' = IF pc = "state" THEN 0 ELSE lastSpawn
                  /\ spawnInterval' = IF pc = "state" THEN SPAWN_INTERVAL_BASE * FP
                                      ELSE spawnInterval
                  /\ lastTime' = IF pc = "state" THEN clock ELSE lastTime
                  /\ gameOver' = IF pc = "state" THEN FALSE ELSE gameOver
                  /\ shotCooldown' = IF pc = "state" THEN 0 ELSE shotCooldown
             ELSE /\ pc' = "crashed"
                  /\ op' = "throw"
                  /\ UNCHANGED <<keys, spawnFastToggle, shipSpeedMult, ship, bullets,
                                 asteroids, score, lastSpawn, spawnInterval,
                                 lastTime, gameOver, shotCooldown>>
    /\ UNCHANGED <<clock, frame, nkeys, ev>>

NextBoot == TopLevel

SpecBoot == InitBoot /\ [][NextBoot]_vars

(***************************************************************************)
(* What the properties below observe.                                      *)
(***************************************************************************)
\* the last operation was reset(), called by the script or by step
ResetRan == op = "reset" \/ (op = "loop" /\ ev.reset)

\* the points Math.floor(100 - radius) of the asteroids in hs, summed
RECURSIVE Points(_)
Points(hs) ==
    IF hs = <<>> THEN 0
    ELSE ((100 * FP - Head(hs).radius) \div FP) + Points(Tail(hs))

\* the lifetimes of the bullets in bs, in order
Lives(bs) == [i \in 1..Len(bs) |-> bs[i].life]

(***************************************************************************)
(* C1.  On every frame that starts with gameOver true and KeyR held, reset *)
(* runs and gameOver is false afterwards.                                  *)
(***************************************************************************)
RestartHonoured ==
    [][(gameOver /\ "KeyR" \in keys /\ frame' # frame)
          => (ResetRan' /\ ~gameOver')]_vars

(***************************************************************************)
(* C2.  Once gameOver is true, and unless reset runs, gameOver stays true  *)
(* and a frame leaves the ship, the bullets, the asteroids and the score   *)
(* as they are.                                                            *)
(***************************************************************************)
GameOverLatch ==
    [][(gameOver /\ ~ResetRan')
          => /\ gameOver'
             /\ frame' # frame => /\ ship' = ship
                                  /\ bullets' = bullets
                                  /\ asteroids' = asteroids
                                  /\ score' = score]_vars

\* a frame has run with the game over, asteroids and a bullet on the field
GameOverLatchWitness ==
    /\ gameOver
    /\ op = "loop"
    /\ ~ev.stepped
    /\ asteroids # <<>>
    /\ bullets # <<>>

(***************************************************************************)
(* C3, as claimed.  Unless reset runs, no operation makes spawnInterval    *)
(* larger.                                                                 *)
(***************************************************************************)
SpawnIntervalNeverGrows ==
    [][~ResetRan' => spawnInterval' <= spawnInterval]_vars

(***************************************************************************)
(* C3, amended.  Unless reset runs, spawnInterval grows only when a        *)
(* keydown of F turns fast spawn off, and that sets it to the base 1200.   *)
(***************************************************************************)
SpawnIntervalGrowsOnlyByToggle ==
    [][~ResetRan'
          => IF spawnFastToggle /\ ~spawnFastToggle'
             THEN spawnInterval' = 1200 * FP
             ELSE spawnInterval' <= spawnInterval]_vars

\* a timed spawn has shortened the base interval to 1176 ms
SpawnIntervalWitness ==
    /\ op = "loop"
    /\ ev.spawned
    /\ spawnInterval = 1176 * FP

(***************************************************************************)
(* C4.  spawnInterval is never below 500 ms.                               *)
(***************************************************************************)
SpawnFloor == spawnInterval >= 500 * FP

\* a timed spawn has run with the interval at the floor
SpawnFloorWitness ==
    /\ op = "loop"
    /\ ev.spawned
    /\ spawnInterval = 500 * FP

(***************************************************************************)
(* C7.  Unless reset runs, no operation makes the score smaller.           *)
(***************************************************************************)
ScoreMonotone ==
    [][~ResetRan' => score' >= score]_vars

\* a bullet has destroyed an asteroid and the score has grown
ScoreMonotoneWitness ==
    /\ op = "loop"
    /\ ev.hits # <<>>
    /\ score > 0

(***************************************************************************)
(* C10.  The dt that loop passes to step is between 0 and 40.              *)
(***************************************************************************)
DtClamped ==
    op = "loop" => (0 <= ev.dt /\ ev.dt <= 40)

(***************************************************************************)
(* C5.  After every step the ship is within 50 of the playfield on both    *)
(* axes, and a coordinate that the integration carried past a margin is    *)
(* on the opposite margin.                                                 *)
(***************************************************************************)
WrapInvariant ==
    (op = "loop" /\ ev.stepped) =>
        LET xmax == (ClientWidth + 50) * FP
            ymax == (ClientHeight + 50) * FP
        IN  /\ -50 * FP <= ship.x /\ ship.x <= xmax
            /\ -50 * FP <= ship.y /\ ship.y <= ymax
            /\ ev.ix < -50 * FP => ship.x = xmax
            /\ ev.ix > xmax => ship.x = -50 * FP
            /\ (-50 * FP <= ev.ix /\ ev.ix <= xmax) => ship.x = ev.ix
            /\ ev.iy < -50 * FP => ship.y = ymax
            /\ ev.iy > ymax => ship.y = -50 * FP
            /\ (-50 * FP <= ev.iy /\ ev.iy <= ymax) => ship.y = ev.iy

\* a step has carried the ship past the left and the top margin at once
WrapInvariantWitness ==
    /\ op = "loop"
    /\ ev.stepped
    /\ ev.ix < -50 * FP
    /\ ev.iy < -50 * FP
    /\ ship.x = (ClientWidth + 50) * FP
    /\ ship.y = (ClientHeight + 50) * FP

(***************************************************************************)
(* C6.  A step removes every asteroid a bullet hits, and appends for each  *)
(* one of radius above 26 two asteroids of 0.55 times its radius, and for  *)
(* each one of radius 26 or less nothing.                                  *)
(***************************************************************************)
FragmentationConserved ==
    [][(frame' # frame /\ ev'.stepped) =>
          LET hs == ev'.hits
              big == SelectSeq(hs, LAMBDA a : a.radius > 26 * FP)
              kept == Len(asteroids) + (IF ev'.spawned THEN 1 ELSE 0)
                      - ev'.culled - Len(hs)
          IN  /\ Len(asteroids') = kept + 2 * Len(big)
              /\ \A k \in 1..Len(big) :
                    /\ asteroids'[kept + 2 * k - 1].radius * 100 = big[k].radius * 55
                    /\ asteroids'[kept + 2 * k].radius * 100 = big[k].radius * 55]_vars

\* a step has destroyed an asteroid of radius 43 and appended two of radius
\* 23.65; the three asteroids that were not hit come before them
FragmentationWitness ==
    /\ op = "loop"
    /\ ~gameOver
    /\ Len(ev.hits) = 1
    /\ ev.hits[1].radius = 43 * FP
    /\ Len(asteroids) = 5
    /\ \A i \in 1..3 : asteroids[i].radius = 31 * FP
    /\ \A i \in 4..5 : asteroids[i].radius = 236500

(***************************************************************************)
(* C8.  A step adds to the score Math.floor(100 - radius) for each         *)
(* asteroid a bullet destroys in it, and nothing else changes the score.   *)
(***************************************************************************)
ScoreByHits ==
    [][~ResetRan' =>
          score' = score + (IF frame' # frame THEN Points(ev'.hits) ELSE 0)]_vars

\* a step has added 76 for a fragment of radius 23.65 to the 57 that an
\* earlier step added for its parent of radius 43
ScoreByHitsWitness ==
    /\ op = "loop"
    /\ Points(ev.hits) = 76
    /\ score = 57 + 76

(***************************************************************************)
(* C9, as claimed.  reset() reinitializes every field of the state: the    *)
(* ship in the centre at rest, no bullets, no asteroids, score 0, the      *)
(* spawn interval 1200 (500 with fast spawn), gameOver false, and the      *)
(* time of the last shot unset.                                            *)
(***************************************************************************)
ResetListed ==
    /\ ship.x * 2 = ClientWidth * FP
    /\ ship.y * 2 = ClientHeight * FP
    /\ ship.vx = 0
    /\ ship.vy = 0
    /\ bullets = <<>>
    /\ asteroids = <<>>
    /\ score = 0
    /\ spawnInterval = (IF spawnFastToggle THEN 500 ELSE 1200) * FP
    /\ ~gameOver

ResetReinitializesAll ==
    op = "reset" => (ResetListed /\ shotCooldown = 0)

(***************************************************************************)
(* C9, amended.  reset() puts the ship in the centre at rest, empties the  *)
(* bullets and the asteroids, sets the score to 0, lastSpawn to the        *)
(* current time, the spawn interval to 1200 (500 with fast spawn) and      *)
(* gameOver to false; it leaves lastTime and the time of the last shot as  *)
(* they were.                                                              *)
(***************************************************************************)
ResetReinitializesListed ==
    [][op' = "reset" =>
          /\ ResetListed'
          /\ lastSpawn' = clock'
          /\ lastTime' = lastTime
          /\ shotCooldown' = shotCooldown]_vars

\* reset() has run on a game with a score, fast spawn on and a shot fired
ResetWitness ==
    /\ op = "reset"
    /\ spawnFastToggle
    /\ spawnInterval = 500 * FP
    /\ shotCooldown # 0
    /\ score = 0
(***************************************************************************)
(* C11.  A step creates at most one bullet, and only with Space held; a    *)
(* bullet is created only when none was created before or the last one was *)
(* created more than 180 ms of wall-clock time earlier, whatever dt and the *)
(* number of steps in between; nothing but a creation changes the recorded  *)
(* time of the last creation.                                              *)
(***************************************************************************)
FireCooldown ==
    [][/\ Len(bullets') <= Len(bullets) + 1
       /\ Len(bullets') > Len(bullets) => (frame' # frame /\ ev'.fired)
       /\ shotCooldown' # shotCooldown => (frame' # frame /\ ev'.fired)
       /\ (frame' # frame /\ ev'.fired) =>
              /\ "Space" \in keys
              /\ shotCooldown = 0 \/ clock' - shotCooldown > 180
              /\ shotCooldown' = clock']_vars

\* the second frame has created a second bullet, more than 180 ms after the
\* first, and the first is still in flight
FireCooldownWitness ==
    /\ op = "loop"
    /\ ev.fired
    /\ frame = 2
    /\ Len(bullets) = 2

(***************************************************************************)
(* C12.  A call of spawnAsteroid appends one asteroid and leaves the       *)
(* others as they are; the new one is 40 outside one edge, between the     *)
(* ends of that edge, its velocity across the edge points into the         *)
(* playfield with 0.3 <= magnitude <= 1.1, and its velocity along the edge *)
(* is within 0.6.                                                          *)
(***************************************************************************)
SpawnAtEdge ==
    [][op' = "spawn" =>
          /\ Len(asteroids') = Len(asteroids) + 1
          /\ SubSeq(asteroids', 1, Len(asteroids)) = asteroids
          /\ LET a == asteroids'[Len(asteroids')]
                  w == ClientWidth * FP
                  h == ClientHeight * FP
                  along(p, v, size) == 0 <= p /\ p <= size /\ -6000 <= v /\ v <= 6000
                  inward(v) == 3000 <= v /\ v <= 11000
              IN  \/ a.x = -40 * FP /\ inward(a.vx) /\ along(a.y, a.vy, h)
                  \/ a.x = w + 40 * FP /\ inward(-a.vx) /\ along(a.y, a.vy, h)
                  \/ a.y = -40 * FP /\ inward(a.vy) /\ along(a.x, a.vx, w)
                  \/ a.y = h + 40 * FP /\ inward(-a.vy) /\ along(a.x, a.vx, w)]_vars

\* the fourth start-up asteroid has been placed right of the playfield,
\* moving left
SpawnAtEdgeWitness ==
    /\ op = "spawn"
    /\ Len(asteroids) = 4
    /\ asteroids[4].x = (ClientWidth + 40) * FP
    /\ asteroids[4].vx < 0

(***************************************************************************)
(* C13.  A bullet starts with lifetime 120 and loses dt in every step, the *)
(* step that creates it included; a step removes the bullets whose         *)
(* lifetime it brings to 0 or below, so that after a step every bullet has *)
(* a lifetime above 0; and while the game is not over and frames with      *)
(* positive dt keep coming, the bullets in flight are all removed.         *)
(***************************************************************************)
BulletExpiry ==
    /\ [][(frame' # frame /\ ev'.stepped) =>
              LET created == IF ev'.fired THEN <<120>> ELSE <<>>
                  before == Lives(bullets) \o created
                  after == [i \in 1..Len(before) |-> before[i] - ev'.dt]
              IN  /\ \A i \in 1..Len(bullets') : bullets'[i].life > 0
                  /\ ev'.hits = <<>> =>
                        Lives(bullets') = SelectSeq(after, LAMBDA l : l > 0)]_vars
    /\ (bullets # <<>> /\ frame <= MaxExpireFrames - ExpiryFrames)
          ~> (bullets = <<>> \/ gameOver)

\* bullets were in flight, none has hit an asteroid, and the last has run out
\* in a step that created none
BulletExpiryWitness ==
    /\ op = "loop"
    /\ ev.stepped
    /\ ~ev.fired
    /\ bullets = <<>>
    /\ score = 0
    /\ shotCooldown # 0
    /\ clock - shotCooldown = 110
    /\ ev.dt = 10

(***************************************************************************)
(* C14.  At the end of a step gameOver is true exactly if it was true      *)
(* before or one of the asteroids then in the collection, the fragments of *)
(* this step included, is nearer to the ship than its radius plus the      *)
(* ship's minus 4; two overlaps at once do what one does.                  *)
(***************************************************************************)
Overlapping ==
    {i \in 1..Len(asteroids) :
        HypotLess(asteroids[i].x - ship.x, asteroids[i].y - ship.y,
                  asteroids[i].radius + ship.radius - 4 * FP)}

ShipCollision ==
    [][(frame' # frame /\ ev'.stepped) =>
          (gameOver' <=> (gameOver \/ Overlapping' # {}))]_vars

\* a step has split an asteroid next to the ship, and its two fragments,
\* the last two of the collection, both overlap the ship
ShipCollisionWitness ==
    /\ op = "loop"
    /\ ev.stepped
    /\ gameOver
    /\ Len(ev.hits) = 1
    /\ ev.hits[1].radius > 26 * FP
    /\ Overlapping = {Len(asteroids) - 1, Len(asteroids)}

SpawnTick ==
    [][IF frame' # frame /\ ev'.stepped
       THEN LET elapsed == clock' - lastSpawn
                big == Len(SelectSeq(ev'.hits, LAMBDA a : a.radius > 26 * FP))
            IN  /\ ev'.spawned <=> elapsed * FP > spawnInterval
                /\ Len(asteroids') = Len(asteroids) + (IF ev'.spawned THEN 1 ELSE 0)
                                      - ev'.culled - Len(ev'.hits) + 2 * big
                /\ ev'.spawned =>
                      /\ elapsed > 500
                      /\ lastSpawn' = clock'
                      /\ spawnInterval' * 100 <= spawnInterval * 98
                         \/ spawnInterval' = 500 * FP
                      /\ spawnInterval' * 100 > spawnInterval * 98 - 100
                      /\ spawnInterval' >= 500 * FP
                /\ ~ev'.spawned =>
                      /\ lastSpawn' = lastSpawn
                      /\ spawnInterval' = spawnInterval
       ELSE ~ResetRan' => lastSpawn' = lastSpawn]_vars

\* the frame 1400 ms after reset is the first to find the spawn due, with
\* the interval at 500 ms, and has added one asteroid to the initial four
SpawnTickWitness ==
    /\ op = "loop"
    /\ ev.spawned
    /\ frame = 2
    /\ clock = StartClock + 1400
    /\ spawnInterval = 500 * FP
    /\ score = 0
    /\ Len(asteroids) = 5

(***************************************************************************)
(* C17, as claimed.  After a step every asteroid has x in [-200, w + 200]  *)
(* and y in [-200, h + 200].                                               *)
(***************************************************************************)
Within(a, margin) ==
    /\ -margin * FP <= a.x
    /\ a.x <= (ClientWidth + margin) * FP
    /\ -margin * FP <= a.y
    /\ a.y <= (ClientHeight + margin) * FP

AsteroidsWithinCull ==
    (op = "loop" /\ ev.stepped) =>
        \A i \in 1..Len(asteroids) : Within(asteroids[i], 200)

(***************************************************************************)
(* C17, amended.  After a step every asteroid that is not a fragment of    *)
(* that step has x in [-200, w + 200] and y in [-200, h + 200]; a fragment *)
(* of that step, placed within 10 of its parent after the cull, has x in   *)
(* [-210, w + 210] and y in [-210, h + 210].                               *)
(***************************************************************************)
AsteroidsWithinCullButFragments ==
    (op = "loop" /\ ev.stepped) =>
        LET big == Len(SelectSeq(ev.hits, LAMBDA a : a.radius > 26 * FP))
            kept == Len(asteroids) - 2 * big
        IN  /\ \A i \in 1..kept : Within(asteroids[i], 200)
            /\ \A i \in (kept + 1)..Len(asteroids) : Within(asteroids[i], 210)

\* a step has split an asteroid 0.2 inside the upper cull margin and left
\* a fragment outside it
AsteroidsCullWitness ==
    /\ op = "loop"
    /\ ev.stepped
    /\ Len(ev.hits) = 1
    /\ ev.hits[1].y = -1998000
    /\ \E i \in 1..Len(asteroids) : asteroids[i].y < -200 * FP

(***************************************************************************)
(* C18.  While the top-level statements run in order, none of them, nor a  *)
(* function it calls, reads a const or let binding whose declaration has   *)
(* not run yet: no ReferenceError ends the script before state is built,   *)
(* reset has run and the first frame is requested.                         *)
(***************************************************************************)
StartupCompletes == pc # "crashed"

(***************************************************************************)
(* C19.  An asteroid that spawnAsteroid makes has a whole radius from 18   *)
(* to 43; a fragment has 0.55 times its parent's radius, which is 26 or    *)
(* less, and does not split; so one spawned asteroid and what comes of it  *)
(* is destroyed by 3 hits at most, every asteroid in the game has one of   *)
(* these radii, and a hit makes the asteroids at most one more.            *)
(***************************************************************************)
\* the asteroids spawnAsteroid makes, over the whole range of Math.random()
Spawned ==
    {spawnAsteroid([edge |-> 0, u2 |-> 0, u3 |-> 0, u4 |-> 0, r |-> u]) :
        u \in 0..99}

\* the hits that destroy a and what comes of it, followed to depth
RECURSIVE HitsToClear(_, _)
HitsToClear(a, depth) ==
    IF depth = 0 THEN 1
    ELSE LET fs == Fragments(a, NoFragDraw, NoFragDraw)
         IN  IF fs = <<>> THEN 1
             ELSE 1 + HitsToClear(fs[1], depth - 1) + HitsToClear(fs[2], depth - 1)

SpawnRadii == {k * FP : k \in 18..43}
FragmentRadii == {(k * FP * 55) \div 100 : k \in 27..43}

\* what spawnAsteroid and the fragments make, whatever the state
SpawnedDepth ==
    \A a \in Spawned :
        /\ a.radius \in SpawnRadii
        /\ HitsToClear(a, 3) <= 3
        /\ LET fs == Fragments(a, NoFragDraw, NoFragDraw)
           IN  \A k \in 1..Len(fs) :
                  /\ fs[k].radius \in FragmentRadii
                  /\ fs[k].radius <= 26 * FP
                  /\ Fragments(fs[k], NoFragDraw, NoFragDraw) = <<>>

FragmentationDepth ==
    /\ []SpawnedDepth
    /\ [](\A i \in 1..Len(asteroids) :
            \/ asteroids[i].radius \in SpawnRadii
            \/ asteroids[i].radius \in FragmentRadii /\ asteroids[i].radius <= 26 * FP)
    /\ [][(frame' # frame /\ ev'.stepped) =>
              /\ Len(asteroids') <= Len(asteroids) + (IF ev'.spawned THEN 1 ELSE 0)
                                    + Len(ev'.hits)
              /\ \A k \in 1..Len(ev'.hits) :
                    ev'.hits[k].radius \in FragmentRadii =>
                        Len(asteroids') < Len(asteroids)
                                          + (IF ev'.spawned THEN 1 ELSE 0)
                                          + Len(ev'.hits)]_vars

\* a step has destroyed a fragment, which left nothing: of the two
\* fragments of an asteroid of radius 43 one is still there
FragmentationDepthWitness ==
    /\ op = "loop"
    /\ Len(ev.hits) = 1
    /\ ev.hits[1].radius \in FragmentRadii
    /\ Len(asteroids) = 4
    /\ Cardinality({i \in 1..4 : asteroids[i].radius \in FragmentRadii}) = 1

=============================================================================
